---- MODULE Spec2Model ----
(***************************************************************************)
(* A model of src/impg.rs: the packed CIGAR operation (CigarOp), the CIGAR *)
(* parser (parse_cigar_to_delta), the stored CIGAR of a QueryMetadata, the *)
(* projection of a target range through an alignment                       *)
(* (project_target_range_through_alignment), the two queries of the index  *)
(* (Impg::query, Impg::query_transitive), its construction from a batch of *)
(* records (Impg::from_paf_records) and its snapshot (to_serializable,     *)
(* from_serializable).                                                     *)
(*                                                                         *)
(* Values.  A u32 is kept as its two bit fields [hi, lo]: hi is bits 31    *)
(* and 30, lo is bits 29..0, so that the u32 is hi * 2^30 + lo.  A         *)
(* Result<T, E> is a record [ok |-> TRUE, val |-> v] or                    *)
(* [ok |-> FALSE, err |-> e]; an Option<T> is <<>> (None) or <<v>>         *)
(* (Some(v)).  A char is a one-character string, a &str a sequence of      *)
(* chars.  Strand is "Forward" or "Reverse".                               *)
(***************************************************************************)
EXTENDS Integers, Sequences, FiniteSets, Bags, TLC

\* ------------------------------------------------------------------ bounds

\* Longest CIGAR string handed to the parser.
MaxCigarChars == 4
\* CigarOp::new is called with the lengths within this distance of 0, of
\* 2^30, of -2^30 and of the two ends of i32.
MaxLenWindow == 2
\* Most ops in a CIGAR handed to the projection.
MaxOps == 2
\* Longest op in a CIGAR handed to the projection.
MaxOpLen == 1
\* Largest target_start / query_start of a record handed to the projection.
MaxStart == 1
\* Sequence ids of the indexes that are queried: 0..MaxSeq-1.
MaxSeq == 2
\* Most intervals in an index that is queried.
MaxEntries == 1
\* Largest coordinate of an alignment in an index and of a queried range.
MaxCoord == 1
\* The indexes on which the worklist of query_transitive is followed hold
\* alignments of the first base of the sequences 0..MaxChainSeq-1, at most
\* MaxChainEntries of them, and are queried on the ranges inside
\* 0..MaxChainCoord.
MaxChainSeq == 2
MaxChainEntries == 4
MaxChainCoord == 1
\* The while loop of query_transitive is followed while the results and the
\* worklist are no longer than this.
MaxResults == 9
MaxStack == 4
\* Most records in a batch handed to from_paf_records.
MaxRecords == 2
\* Most ops in a CIGAR that is parsed, stored and read back.
MaxStoreOps == 2
\* The indexes that are serialized hold at most MaxSnapEntries alignments of
\* the sequences 0..MaxSnapSeq-1.
MaxSnapSeq == 2
MaxSnapEntries == 3

\* --------------------------------------------------------------- CigarOp

\* The shift of the opcode inside val (val << 30, self.val >> 30).
OpShift == 30

\* 1 << 30: the first length that does not fit under the opcode.
LenLimit == 2^OpShift

\* i32::MAX, the largest value num_buf.parse::<i32>() returns.
I32Max == 2147483647

Ok(v) == [ok |-> TRUE, val |-> v]

Err(e) == [ok |-> FALSE, err |-> e]

\* a | b on a field of `bits` bits.
RECURSIVE BitOr(_, _, _)
BitOr(a, b, bits) ==
    IF bits = 0 THEN 0
    ELSE (IF a % 2 = 1 \/ b % 2 = 1 THEN 1 ELSE 0)
         + 2 * BitOr(a \div 2, b \div 2, bits - 1)

\* `len as u32`: the two's complement bits of an i32, as [hi, lo].
AsU32(len) == [hi |-> (len \div LenLimit) % 4, lo |-> len % LenLimit]

\* The opcode's number in CigarOp::new's match, <<>> for any other char.
OpCode(op) ==
    CASE op = "=" -> <<0>>
      [] op = "X" -> <<1>>
      [] op = "I" -> <<2>>
      [] op = "D" -> <<3>>
      [] OTHER -> <<>>

\* (val << 30) | (len as u32), for val in 0..3.
Pack(val, len) ==
    [hi |-> BitOr(val, AsU32(len).hi, 2),
     lo |-> BitOr(0, AsU32(len).lo, OpShift)]

\* CigarOp::new(len, op).
CigarOp_new(len, op) ==
    IF OpCode(op) = <<>>
    THEN Err("Invalid CIGAR operation")
    ELSE Ok([val |-> Pack(OpCode(op)[1], len)])

\* CigarOp::op(): the two most significant bits of val.
CigarOp_op(c) ==
    CASE c.val.hi = 0 -> "="
      [] c.val.hi = 1 -> "X"
      [] c.val.hi = 2 -> "I"
      [] c.val.hi = 3 -> "D"

\* CigarOp::len(): val & ((1 << 30) - 1).
CigarOp_len(c) == c.val.lo

\* CigarOp::target_delta().
target_delta(c) ==
    IF CigarOp_op(c) \in {"=", "X", "D"} THEN CigarOp_len(c) ELSE 0

\* CigarOp::query_delta(strand).
query_delta(c, strand) ==
    IF CigarOp_op(c) \in {"=", "X", "I"}
    THEN IF strand = "Forward" THEN CigarOp_len(c) ELSE -CigarOp_len(c)
    ELSE 0

\* ------------------------------------------------- parse_cigar_to_delta

IsAsciiDigit(c) == c \in {"0", "1", "2", "3", "4", "5", "6", "7", "8", "9"}

DigitValue(c) ==
    CASE c = "0" -> 0 [] c = "1" -> 1 [] c = "2" -> 2 [] c = "3" -> 3
      [] c = "4" -> 4 [] c = "5" -> 5 [] c = "6" -> 6 [] c = "7" -> 7
      [] c = "8" -> 8 [] c = "9" -> 9

\* The digits buf[i..] appended to the value acc; <<>> when it passes i32::MAX.
RECURSIVE ParseDigits(_, _, _)
ParseDigits(buf, i, acc) ==
    IF i > Len(buf) THEN <<acc>>
    ELSE IF acc > (I32Max - DigitValue(buf[i])) \div 10 THEN <<>>
    ELSE ParseDigits(buf, i + 1, acc * 10 + DigitValue(buf[i]))

\* num_buf.parse::<i32>() on a buffer of ASCII digits: the empty buffer and a
\* value above i32::MAX are errors.
ParseI32(buf) ==
    IF buf = <<>> \/ ParseDigits(buf, 1, 0) = <<>>
    THEN Err("ParseIntError")
    ELSE Ok(ParseDigits(buf, 1, 0)[1])

\* The for loop of parse_cigar_to_delta from char i on, with the ops and the
\* digit buffer collected so far.  The buffer left at the end of the string is
\* not looked at: the function returns Ok(ops).
RECURSIVE ParseLoop(_, _, _, _)
ParseLoop(cigar, i, ops, num_buf) ==
    IF i > Len(cigar) THEN Ok(ops)
    ELSE IF IsAsciiDigit(cigar[i])
    THEN ParseLoop(cigar, i + 1, ops, Append(num_buf, cigar[i]))
    ELSE IF ~ParseI32(num_buf).ok THEN Err("InvalidCigarFormat")
    ELSE IF ~CigarOp_new(ParseI32(num_buf).val, cigar[i]).ok
    THEN Err("InvalidCigarFormat")
    ELSE ParseLoop(cigar, i + 1,
                   Append(ops, CigarOp_new(ParseI32(num_buf).val, cigar[i]).val),
                   <<>>)

\* parse_cigar_to_delta(cigar).
parse_cigar_to_delta(cigar) == ParseLoop(cigar, 1, <<>>, <<>>)

\* ------------------------------- project_target_range_through_alignment

Max(a, b) == IF a >= b THEN a ELSE b

Min(a, b) == IF a <= b THEN a ELSE b

\* Option::insert in the place of Option::get_or_insert.
GetOrInsert_overwrites(opt, v) == <<v>>

\* Option::get_or_insert.
GetOrInsert(opt, v) == IF opt = <<>> THEN <<v>> ELSE opt

\* Option::unwrap_or.
UnwrapOr(opt, v) == IF opt = <<>> THEN v ELSE opt[1]

\* One arm of the match on (target_delta, query_delta), on the cursors
\* st = [target_pos, query_pos, projected_start, projected_end].
InsertionArm(st, target_range, qd) ==
    LET inside == st.target_pos >= target_range[1] /\ st.target_pos <= target_range[2]
    IN [st EXCEPT
          !.projected_start = IF inside THEN GetOrInsert(@, st.query_pos) ELSE @,
          !.projected_end = IF inside
                            THEN <<st.query_pos +
                                   (IF st.target_pos <= target_range[2] THEN 0 ELSE qd)>>
                            ELSE @,
          !.query_pos = @ + qd]

DeletionArm(st, target_range, td) ==
    LET overlap_start == Max(st.target_pos, target_range[1])
        overlap_end == Min(st.target_pos + td, target_range[2])
        overlap == overlap_start < overlap_end
    IN [st EXCEPT
          !.projected_start = IF overlap THEN GetOrInsert(@, st.query_pos) ELSE @,
          !.projected_end = IF overlap THEN <<st.query_pos>> ELSE @,
          !.target_pos = @ + td]

\* The match arm without dir: the query is walked forward on either strand.
MatchArm_forward_only(st, target_range, td, qd, strand) ==
    LET overlap_start == Max(st.target_pos, target_range[1])
        overlap_end == Min(st.target_pos + td, target_range[2])
        overlap == overlap_start < overlap_end
        query_overlap_start == st.query_pos + (overlap_start - st.target_pos)
        query_overlap_end == query_overlap_start + (overlap_end - overlap_start)
    IN [st EXCEPT
          !.projected_start = IF overlap THEN GetOrInsert(@, query_overlap_start) ELSE @,
          !.projected_end = IF overlap THEN <<query_overlap_end>> ELSE @,
          !.target_pos = @ + td,
          !.query_pos = @ + qd]

MatchArm(st, target_range, td, qd, strand) ==
    LET overlap_start == Max(st.target_pos, target_range[1])
        overlap_end == Min(st.target_pos + td, target_range[2])
        overlap == overlap_start < overlap_end
        overlap_length == overlap_end - overlap_start
        dir == IF strand = "Forward" THEN 1 ELSE -1
        query_overlap_start == st.query_pos + (overlap_start - st.target_pos) * dir
        query_overlap_end == query_overlap_start + overlap_length * dir
    IN [st EXCEPT
          !.projected_start = IF overlap THEN GetOrInsert(@, query_overlap_start) ELSE @,
          !.projected_end = IF overlap THEN <<query_overlap_end>> ELSE @,
          !.target_pos = @ + td,
          !.query_pos = @ + qd]

\* The body of the for loop for one op: the first arm whose pattern matches.
ProjectOp(st, target_range, strand, cigar_op) ==
    LET td == target_delta(cigar_op)
        qd == query_delta(cigar_op, strand)
    IN IF td = 0 THEN InsertionArm(st, target_range, qd)
       ELSE IF qd = 0 THEN DeletionArm(st, target_range, td)
       ELSE MatchArm(st, target_range, td, qd, strand)

\* The for loop from op i on; it breaks once target_pos is past the range.
RECURSIVE ProjectLoop(_, _, _, _, _)
ProjectLoop(st, target_range, strand, cigar_ops, i) ==
    IF i > Len(cigar_ops) \/ st.target_pos > target_range[2] THEN st
    ELSE ProjectLoop(ProjectOp(st, target_range, strand, cigar_ops[i]),
                     target_range, strand, cigar_ops, i + 1)

\* No swap on either strand.
SwapIfReverse_never(st, strand) == st

\* The swap of projected_start and projected_end for the reverse strand.
SwapIfReverse(st, strand) ==
    IF strand = "Reverse"
    THEN [st EXCEPT !.projected_start = st.projected_end,
                    !.projected_end = st.projected_start]
    ELSE st

\* project_target_range_through_alignment(target_range, record, cigar_ops),
\* record = <<target_start, target_end, query_start, query_end, strand>>.
project_target_range_through_alignment(target_range, record, cigar_ops) ==
    LET target_start == record[1]
        query_start == record[3]
        query_end == record[4]
        strand == record[5]
        st0 == [target_pos |-> target_start,
                query_pos |-> IF strand = "Forward" THEN query_start ELSE query_end,
                projected_start |-> <<>>,
                projected_end |-> <<>>]
        st == SwapIfReverse(ProjectLoop(st0, target_range, strand, cigar_ops, 1), strand)
    IN <<UnwrapOr(st.projected_start, query_start), UnwrapOr(st.projected_end, st.query_pos)>>

\* ------------------------------------------------------------ QueryMetadata

\* A u32 as bincode writes it: four bytes, the least significant first.  The
\* last byte holds the two opcode bits above the six top bits of the length.
EncodeU32_big_endian(v) ==
    <<(v.lo \div 16777216) + v.hi * 64, (v.lo \div 65536) % 256,
      (v.lo \div 256) % 256, v.lo % 256>>

EncodeU32(v) ==
    <<v.lo % 256, (v.lo \div 256) % 256, (v.lo \div 65536) % 256,
      (v.lo \div 16777216) + v.hi * 64>>

\* The u32 bincode reads from four bytes.
DecodeU32(b) ==
    [hi |-> b[4] \div 64,
     lo |-> b[1] + b[2] * 256 + b[3] * 65536 + (b[4] % 64) * 16777216]

\* The length of a Vec as bincode writes it: a u64, eight bytes, the least
\* significant first.
EncodeLen(n) ==
    <<n % 256, (n \div 256) % 256, (n \div 65536) % 256, n \div 16777216, 0, 0, 0, 0>>

DecodeLen(b) == b[1] + b[2] * 256 + b[3] * 65536 + b[4] * 16777216

\* bincode::serialize(cigar_ops): the length of the list, then each op's val.
RECURSIVE EncodeOps(_, _)
EncodeOps(cigar_ops, i) ==
    IF i > Len(cigar_ops) THEN <<>>
    ELSE EncodeU32(cigar_ops[i].val) \o EncodeOps(cigar_ops, i + 1)

bincode_serialize(cigar_ops) == EncodeLen(Len(cigar_ops)) \o EncodeOps(cigar_ops, 1)

\* bincode::deserialize(bytes) as a Vec<CigarOp>.
bincode_deserialize(bytes) ==
    [i \in 1..DecodeLen(SubSeq(bytes, 1, 8)) |->
        [val |-> DecodeU32(SubSeq(bytes, 8 + 4 * (i - 1) + 1, 8 + 4 * i))]]

\* QueryMetadata::set_cigar_ops(cigar_ops): the value of compressed_cigar_ops,
\* the XZ stream of the encoded ops.  The stream is kept as a wrapper that
\* holds the bytes it decompresses to.
set_cigar_ops(cigar_ops) == [xz |-> bincode_serialize(cigar_ops)]

\* QueryMetadata::get_cigar_ops(): the list decoded from the decompressed
\* stream.
get_cigar_ops(metadata) == bincode_deserialize(metadata.compressed_cigar_ops.xz)

\* The QueryMetadata and the Interval that the closure of from_paf_records
\* builds for one record (lines 127-142).
IntervalOf(query_id, target_start, target_end, query_start, query_end, strand, cigar_ops) ==
    [first |-> target_start,
     last |-> target_end,
     metadata |-> [query_id |-> query_id,
                   compressed_cigar_ops |-> set_cigar_ops(cigar_ops),
                   target_start |-> target_start,
                   target_end |-> target_end,
                   query_start |-> query_start,
                   query_end |-> query_end,
                   strand |-> strand]]

\* QueryInterval { first, last, metadata }.
QueryInterval(first, last, id) == [first |-> first, last |-> last, metadata |-> id]

\* ------------------------------------------------------------------ Impg

\* tree.query(first, last, visit): the stored intervals that overlap
\* [first, last], point touch included, in the order the tree visits them (the
\* order of the tree's sequence; every order is an initial state).
Stab(tree, first, last) ==
    SelectSeq(tree, LAMBDA iv : iv.first <= last /\ iv.last >= first)

\* self.trees.get(&target_id) that falls back on the tree of another target.
Hits_falls_back(index, target_id, first, last) ==
    IF target_id \in DOMAIN index THEN Stab(index[target_id], first, last)
    ELSE IF DOMAIN index = {} THEN <<>>
    ELSE Stab(index[CHOOSE t \in DOMAIN index : TRUE], first, last)

\* self.trees.get(&target_id) followed by the stabbing query; no tree, no hit.
Hits(index, target_id, first, last) ==
    IF target_id \in DOMAIN index THEN Stab(index[target_id], first, last) ELSE <<>>

\* The adjusted_interval the visitor builds for one hit (lines 197-208,
\* 229-240).
AdjustedInterval(interval, range_start, range_end) ==
    LET metadata == interval.metadata
        adjusted == project_target_range_through_alignment(
                        <<range_start, range_end>>,
                        <<metadata.target_start, metadata.target_end,
                          metadata.query_start, metadata.query_end, metadata.strand>>,
                        get_cigar_ops(metadata))
    IN QueryInterval(adjusted[1], adjusted[2], metadata.query_id)

\* The identity interval with its ends exchanged.
IdentityInterval_swapped(target_id, range_start, range_end) ==
    QueryInterval(range_end, range_start, target_id)

\* The identity interval both queries push first.
IdentityInterval(target_id, range_start, range_end) ==
    QueryInterval(range_start, range_end, target_id)

\* Impg::query(target_id, range_start, range_end).
query(index, target_id, range_start, range_end) ==
    LET hits == Hits(index, target_id, range_start, range_end)
    IN <<IdentityInterval(target_id, range_start, range_end)>>
       \o [i \in 1..Len(hits) |-> AdjustedInterval(hits[i], range_start, range_end)]

\* The visitor with results.push moved inside the test on query_id.
Visit_skips_self(loc, current, interval) ==
    LET adjusted == AdjustedInterval(interval, current[2], current[3])
        todo_range == <<interval.metadata.query_id, adjusted.first, adjusted.last>>
    IN IF interval.metadata.query_id /= current[1]
       THEN [results |-> Append(loc.results, adjusted),
             stack |-> IF todo_range \in loc.visited
                       THEN Append(loc.stack, todo_range) ELSE loc.stack,
             visited |-> loc.visited \cup {todo_range}]
       ELSE loc

\* The visitor of query_transitive for one hit, on the locals
\* loc = [results, stack, visited]: HashSet::insert returns true when the value
\* was not in the set, and the triple is pushed when it returns false.
Visit(loc, current, interval) ==
    LET adjusted == AdjustedInterval(interval, current[2], current[3])
        todo_range == <<interval.metadata.query_id, adjusted.first, adjusted.last>>
        inserted == todo_range \notin loc.visited
    IN IF interval.metadata.query_id /= current[1]
       THEN [results |-> Append(loc.results, adjusted),
             stack |-> IF ~inserted THEN Append(loc.stack, todo_range) ELSE loc.stack,
             visited |-> loc.visited \cup {todo_range}]
       ELSE [loc EXCEPT !.results = Append(@, adjusted)]

\* The visitor applied to the hits from hit i on.
RECURSIVE VisitAll(_, _, _, _)
VisitAll(loc, current, hits, i) ==
    IF i > Len(hits) THEN loc
    ELSE VisitAll(Visit(loc, current, hits[i]), current, hits, i + 1)

\* One iteration of the while loop: pop the last triple, visit its hits.
LoopBody(index, loc) ==
    LET current == loc.stack[Len(loc.stack)]
        popped == [loc EXCEPT !.stack = SubSeq(@, 1, Len(@) - 1)]
    IN VisitAll(popped, current, Hits(index, current[1], current[2], current[3]), 1)

\* ------------------------------------------------------- the state machine

VARIABLES
    trees,      \* Impg.trees: target id -> the intervals of its tree
    pc,         \* "idle", "loop" (at the head of the while loop), "done"
    call,       \* the function called and its arguments
    results,    \* the local results of query / query_transitive
    stack,      \* the local stack of query_transitive
    visited,    \* the local visited of query_transitive
    ret,        \* the value returned
    heads,      \* history: <<stack, visited>> at each arrival at the loop head
    seq_index,  \* the SequenceIndex of from_paf_records: name -> id
    parts,      \* from_paf_records: the pieces of the slice and their groups
    snapshot    \* the SerializableImpg that to_serializable returned

vars == <<trees, pc, call, results, stack, visited, ret, heads,
          seq_index, parts, snapshot>>

\* What the queries and the functions on their own leave alone.
buildVars == <<seq_index, parts, snapshot>>

NoCall == [fn |-> "none"]

\* The alignments of one `=` op inside 0..maxc, as intervals of query_id.
Alignments(query_id, maxc, strands) ==
    { IntervalOf(query_id, ts, ts + len, qs, qs + len, strand,
                 <<CigarOp_new(len, "=").val>>) :
        <<ts, len, qs, strand>> \in
            { x \in (0..maxc) \X (1..maxc) \X (0..maxc) \X strands :
                x[1] + x[2] <= maxc /\ x[3] + x[2] <= maxc } }

\* What the tree of one target may hold: alignments of any sequence, the
\* target itself included.
Entries(nseq, maxc, strands) ==
    UNION { Alignments(q, maxc, strands) : q \in 0..(nseq - 1) }

\* The indexes over the targets 0..t-1 with at most n intervals: a target has
\* a tree only if it has an interval, and a tree keeps its intervals in any
\* order.
RECURSIVE TreeMaps(_, _, _)
TreeMaps(t, n, entries) ==
    IF t = 0 THEN {<<>>}
    ELSE UNION { { IF tree = <<>> THEN m ELSE m @@ ((t - 1) :> tree) :
                     m \in TreeMaps(t - 1, n - k, entries),
                     tree \in [1..k -> entries] } :
                 k \in 0..n }

InitOn(indexes) ==
    /\ trees \in indexes
    /\ pc = "idle"
    /\ call = NoCall
    /\ results = <<>>
    /\ stack = <<>>
    /\ visited = {}
    /\ ret = <<>>
    /\ heads = <<>>
    /\ seq_index = <<>>
    /\ parts = <<>>
    /\ snapshot = <<>>

\* let results = self.query(target_id, range_start, range_end).
Query(nseq, maxc) ==
    \E target_id \in 0..(nseq - 1), range_start \in 0..maxc, range_end \in 0..maxc :
        /\ pc = "idle"
        /\ range_start <= range_end
        /\ call' = [fn |-> "query", target_id |-> target_id,
                    range_start |-> range_start, range_end |-> range_end]
        /\ results' = query(trees, target_id, range_start, range_end)
        /\ ret' = results'
        /\ pc' = "done"
        /\ UNCHANGED <<trees, stack, visited, heads>>
        /\ UNCHANGED buildVars

\* query_transitive up to the while loop (lines 216-224).
TransitiveBegin(nseq, maxc) ==
    \E target_id \in 0..(nseq - 1), range_start \in 0..maxc, range_end \in 0..maxc :
        /\ pc = "idle"
        /\ range_start <= range_end
        /\ call' = [fn |-> "query_transitive", target_id |-> target_id,
                    range_start |-> range_start, range_end |-> range_end]
        /\ results' = <<IdentityInterval(target_id, range_start, range_end)>>
        /\ stack' = <<<<target_id, range_start, range_end>>>>
        /\ visited' = {}
        /\ heads' = <<[stack |-> stack', visited |-> visited']>>
        /\ pc' = "loop"
        /\ UNCHANGED <<trees, ret>>
        /\ UNCHANGED buildVars

\* One iteration of while let Some(..) = stack.pop() (lines 226-251).
TransitiveLoop ==
    /\ pc = "loop"
    /\ stack /= <<>>
    /\ Len(results) <= MaxResults
    /\ Len(stack) <= MaxStack
    /\ LET loc == LoopBody(trees, [results |-> results, stack |-> stack,
                                   visited |-> visited])
       IN /\ results' = loc.results
          /\ stack' = loc.stack
          /\ visited' = loc.visited
          /\ heads' = Append(heads, [stack |-> loc.stack, visited |-> loc.visited])
    /\ UNCHANGED <<trees, pc, call, ret>>
    /\ UNCHANGED buildVars

\* stack.pop() is None: the loop ends and results is returned.
TransitiveReturn ==
    /\ pc = "loop"
    /\ stack = <<>>
    /\ ret' = results
    /\ pc' = "done"
    /\ UNCHANGED <<trees, call, results, stack, visited, heads>>
    /\ UNCHANGED buildVars

\* Queries of an index of alignments of either strand.
Init == InitOn(TreeMaps(MaxSeq, MaxEntries, Entries(MaxSeq, MaxCoord, {"Forward", "Reverse"})))

Next ==
    \/ Query(MaxSeq, MaxCoord)
    \/ TransitiveBegin(MaxSeq, MaxCoord)
    \/ TransitiveLoop
    \/ TransitiveReturn

Spec == Init /\ [][Next]_vars

\* The forward alignment of the first base of query_id on the first base of
\* the target.
FirstBaseAlignment(query_id) ==
    IntervalOf(query_id, 0, 1, 0, 1, "Forward", <<CigarOp_new(1, "=").val>>)

\* Queries of an index of such alignments: what the worklist does depends on
\* which sequences are aligned on which, and how many times.
InitChain ==
    InitOn(TreeMaps(MaxChainSeq, MaxChainEntries,
                    { FirstBaseAlignment(q) : q \in 0..(MaxChainSeq - 1) }))

NextChain ==
    \/ Query(MaxChainSeq, MaxChainCoord)
    \/ TransitiveBegin(MaxChainSeq, MaxChainCoord)
    \/ TransitiveLoop
    \/ TransitiveReturn

SpecChain == InitChain /\ [][NextChain]_vars

\* --------------------------------------------- the functions on their own

\* The state of a call of a function that reads no index.
InitCall(calls) ==
    /\ call \in calls
    /\ pc = "idle"
    /\ trees = <<>>
    /\ results = <<>>
    /\ stack = <<>>
    /\ visited = {}
    /\ ret = <<>>
    /\ heads = <<>>
    /\ seq_index = <<>>
    /\ parts = <<>>
    /\ snapshot = <<>>

\* The CIGARs of at most n ops, each of a length in 0..maxlen.
RECURSIVE Cigars(_, _)
Cigars(n, maxlen) ==
    IF n = 0 THEN {<<>>}
    ELSE Cigars(n - 1, maxlen) \cup
         { Append(c, CigarOp_new(len, op).val) :
             c \in { x \in Cigars(n - 1, maxlen) : Len(x) = n - 1 },
             len \in 0..maxlen, op \in {"=", "X", "I", "D"} }

RECURSIVE SumTargetDelta(_, _)
SumTargetDelta(cigar_ops, i) ==
    IF i > Len(cigar_ops) THEN 0
    ELSE target_delta(cigar_ops[i]) + SumTargetDelta(cigar_ops, i + 1)

RECURSIVE SumQueryDelta(_, _)
SumQueryDelta(cigar_ops, i) ==
    IF i > Len(cigar_ops) THEN 0
    ELSE query_delta(cigar_ops[i], "Forward") + SumQueryDelta(cigar_ops, i + 1)

\* The calls of the projection that Impg::query makes: a record that keeps the
\* invariants of its construction (its ends are its starts plus the sums of
\* the deltas of its CIGAR), and a range with range_start <= range_end that
\* the tree reports as overlapping the record.  The range reaches at most one
\* position out of the record on either side.
ProjectCalls(maxops, maxlen, maxstart) ==
    { [fn |-> "project",
       target_range |-> <<x[5], x[6]>>,
       record |-> <<x[2], x[2] + SumTargetDelta(x[1], 1),
                    x[3], x[3] + SumQueryDelta(x[1], 1), x[4]>>,
       cigar_ops |-> x[1]] :
        x \in { y \in Cigars(maxops, maxlen) \X (0..maxstart) \X (0..maxstart)
                      \X {"Forward", "Reverse"}
                      \X (0..(maxstart + maxops * maxlen + 1))
                      \X (0..(maxstart + maxops * maxlen + 1)) :
                  /\ y[5] <= y[6]
                  /\ y[2] <= y[6]
                  /\ y[2] + SumTargetDelta(y[1], 1) >= y[5]
                  /\ y[2] - 1 <= y[5]
                  /\ y[6] <= y[2] + SumTargetDelta(y[1], 1) + 1 } }

InitProject == InitCall(ProjectCalls(MaxOps, MaxOpLen, MaxStart))

Project ==
    /\ pc = "idle"
    /\ call.fn = "project"
    /\ ret' = project_target_range_through_alignment(call.target_range, call.record,
                                                     call.cigar_ops)
    /\ pc' = "done"
    /\ UNCHANGED <<trees, call, results, stack, visited, heads>>
    /\ UNCHANGED buildVars

NextProject == Project

SpecProject == InitProject /\ [][NextProject]_vars

\* The calls of the projection with any range that has range_start <=
\* range_end, whether it overlaps the record or not.  The record keeps the
\* invariants of its construction; its query starts at maxstart -
\* target_start, so that the two starts differ.
AnyProjectCalls(maxops, maxlen, maxstart) ==
    { [fn |-> "project",
       target_range |-> <<x[4], x[5]>>,
       record |-> <<x[2], x[2] + SumTargetDelta(x[1], 1),
                    maxstart - x[2], maxstart - x[2] + SumQueryDelta(x[1], 1), x[3]>>,
       cigar_ops |-> x[1]] :
        x \in { y \in Cigars(maxops, maxlen) \X (0..maxstart)
                      \X {"Forward", "Reverse"}
                      \X (0..(maxstart + maxops * maxlen + 1))
                      \X (0..(maxstart + maxops * maxlen + 1)) :
                  y[4] <= y[5] } }

InitProjectAny == InitCall(AnyProjectCalls(MaxOps, MaxOpLen, MaxStart))

SpecProjectAny == InitProjectAny /\ [][NextProject]_vars

\* The chars the parser is fed: digits, the four opcodes, and M.
CigarChars == {"0", "1", "2", "=", "X", "I", "D", "M"}

ParseCalls(maxchars) ==
    { [fn |-> "parse", cigar |-> c] :
        c \in UNION { [1..n -> CigarChars] : n \in 0..maxchars } }

InitParse == InitCall(ParseCalls(MaxCigarChars))

Parse ==
    /\ pc = "idle"
    /\ call.fn = "parse"
    /\ ret' = parse_cigar_to_delta(call.cigar)
    /\ pc' = "done"
    /\ UNCHANGED <<trees, call, results, stack, visited, heads>>
    /\ UNCHANGED buildVars

NextParse == Parse

SpecParse == InitParse /\ [][NextParse]_vars

\* i32::MIN.
I32Min == -I32Max - 1

\* The lengths CigarOp::new is called with.
NewLens(window) ==
    UNION { { 0 + d, 0 - d, LenLimit + d, LenLimit - d, -LenLimit + d, -LenLimit - d,
              I32Max - d, I32Min + d } : d \in 0..window }

NewCalls(window) ==
    { [fn |-> "CigarOp::new", len |-> len, op |-> op] :
        len \in NewLens(window), op \in {"=", "X", "I", "D", "M", "N"} }

InitNew == InitCall(NewCalls(MaxLenWindow))

New ==
    /\ pc = "idle"
    /\ call.fn = "CigarOp::new"
    /\ ret' = CigarOp_new(call.len, call.op)
    /\ pc' = "done"
    /\ UNCHANGED <<trees, call, results, stack, visited, heads>>
    /\ UNCHANGED buildVars

NextNew == New

SpecNew == InitNew /\ [][NextNew]_vars

\* ------------------------------------------------------ from_paf_records

\* SequenceIndex::new(): no name has an id.
SequenceIndex_new == <<>>

\* SequenceIndex::get_or_insert_id(name): a name that has no id gets the next
\* one.
get_or_insert_id(index, name) ==
    IF name \in DOMAIN index THEN index
    ELSE index @@ (name :> Cardinality(DOMAIN index))

\* SequenceIndex::get_id(name): Some(id), or None for a name never interned.
get_id(index, name) == IF name \in DOMAIN index THEN <<index[name]>> ELSE <<>>

\* The first loop of from_paf_records from record i on: both names of every
\* record are interned, the query's first.
RECURSIVE InternAll(_, _, _)
InternAll(records, i, index) ==
    IF i > Len(records) THEN index
    ELSE InternAll(records, i + 1,
                   get_or_insert_id(get_or_insert_id(index, records[i].query_name),
                                    records[i].target_name))

\* The closure of filter_map with `?` replaced by unwrap_or_default: a CIGAR
\* that fails to parse is stored as no ops.
RecordEntry_keeps_failed(index, record) ==
    LET parsed == IF record.cigar = <<>> THEN Ok(<<>>)
                  ELSE parse_cigar_to_delta(record.cigar[1])
        cigar_ops == IF parsed.ok THEN parsed.val ELSE <<>>
        query_id == get_id(index, record.query_name)
        target_id == get_id(index, record.target_name)
    IN IF query_id = <<>> \/ target_id = <<>> THEN [kind |-> "panic"]
       ELSE [kind |-> "some",
             target_id |-> target_id[1],
             interval |-> IntervalOf(query_id[1], record.target_start, record.target_end,
                                     record.query_start, record.query_end,
                                     record.strand, cigar_ops)]

\* The closure of filter_map for one record (lines 122-143): None when the
\* CIGAR fails to parse, else Some((target_id, interval)), the ops of a record
\* without CIGAR being the empty Vec; expect panics when a name has no id.  The
\* coordinates are below 2^31, where `as i32` keeps them.
RecordEntry(index, record) ==
    LET parsed == IF record.cigar = <<>> THEN Ok(<<>>)
                  ELSE parse_cigar_to_delta(record.cigar[1])
        query_id == get_id(index, record.query_name)
        target_id == get_id(index, record.target_name)
    IN IF ~parsed.ok THEN [kind |-> "none"]
       ELSE IF query_id = <<>> \/ target_id = <<>> THEN [kind |-> "panic"]
       ELSE [kind |-> "some",
             target_id |-> target_id[1],
             interval |-> IntervalOf(query_id[1], record.target_start, record.target_end,
                                     record.query_start, record.query_end,
                                     record.strand, parsed.val)]

\* The closure of fold: acc.entry(target_id).or_default().push(interval).
FoldPush(acc, target_id, interval) ==
    IF target_id \in DOMAIN acc
    THEN [acc EXCEPT ![target_id] = Append(@, interval)]
    ELSE acc @@ (target_id :> <<interval>>)

\* The closure of reduce with acc.insert(key, value): the group of part
\* replaces the group of acc.
ReduceMerge_overwrites(acc, part) ==
    [key \in DOMAIN acc \cup DOMAIN part |->
        IF key \in DOMAIN part THEN part[key] ELSE acc[key]]

\* The closure of reduce: for every (key, value) of part,
\* acc.entry(key).or_default().extend(value).
ReduceMerge(acc, part) ==
    [key \in DOMAIN acc \cup DOMAIN part |->
        (IF key \in DOMAIN acc THEN acc[key] ELSE <<>>)
        \o (IF key \in DOMAIN part THEN part[key] ELSE <<>>)]

\* The sequences that hold the elements of seq in some order.
Orders(seq) ==
    { [i \in DOMAIN seq |-> seq[f[i]]] :
        f \in { g \in [DOMAIN seq -> DOMAIN seq] :
                  \A i, j \in DOMAIN seq : g[i] = g[j] => i = j } }

\* The trees BasicCOITree::new builds from the groups, one per key: a tree
\* holds the intervals of its group and visits them in an order of its own.
TreesOf(groups) ==
    { t \in [DOMAIN groups -> UNION { Orders(groups[k]) : k \in DOMAIN groups }] :
        \A k \in DOMAIN groups : t[k] \in Orders(groups[k]) }

\* A piece of the slice that par_iter hands to one task: the records lo..hi,
\* the next one to go through filter_map and fold, and the HashMap of fold.
Piece(lo, hi) == [lo |-> lo, hi |-> hi, next |-> lo, acc |-> <<>>]

\* The first loop (lines 115-119), then par_iter() on the whole slice.
FromPafIntern ==
    /\ pc = "intern"
    /\ seq_index' = InternAll(call.records, 1, seq_index)
    /\ parts' = <<Piece(1, Len(call.records))>>
    /\ pc' = "map"
    /\ UNCHANGED <<trees, call, results, stack, visited, ret, heads, snapshot>>

\* A piece no task has started on is split in two halves.
FromPafSplit ==
    \E p \in DOMAIN parts :
        LET piece == parts[p]
            mid == piece.lo + ((piece.hi - piece.lo + 1) \div 2)
        IN /\ pc = "map"
           /\ piece.next = piece.lo
           /\ piece.hi > piece.lo
           /\ parts' = SubSeq(parts, 1, p - 1)
                        \o <<Piece(piece.lo, mid - 1), Piece(mid, piece.hi)>>
                        \o SubSeq(parts, p + 1, Len(parts))
           /\ UNCHANGED <<trees, pc, call, results, stack, visited, ret, heads,
                          seq_index, snapshot>>

\* A task takes the next record of its piece through filter_map and fold.
FromPafWork ==
    \E p \in DOMAIN parts :
        LET piece == parts[p]
            entry == RecordEntry(seq_index, call.records[piece.next])
        IN /\ pc = "map"
           /\ piece.next <= piece.hi
           /\ IF entry.kind = "panic"
              THEN pc' = "panic" /\ parts' = parts
              ELSE /\ pc' = pc
                   /\ parts' = [parts EXCEPT
                          ![p].next = @ + 1,
                          ![p].acc = IF entry.kind = "some"
                                     THEN FoldPush(@, entry.target_id, entry.interval)
                                     ELSE @]
           /\ UNCHANGED <<trees, call, results, stack, visited, ret, heads,
                          seq_index, snapshot>>

\* reduce merges the HashMaps of two neighbouring pieces that are folded, the
\* left one as acc.
FromPafReduce ==
    \E p \in 1..(Len(parts) - 1) :
        LET left == parts[p]
            right == parts[p + 1]
        IN /\ pc = "map"
           /\ left.next > left.hi
           /\ right.next > right.hi
           /\ parts' = SubSeq(parts, 1, p - 1)
                        \o <<[lo |-> left.lo, hi |-> right.hi, next |-> right.next,
                              acc |-> ReduceMerge(left.acc, right.acc)]>>
                        \o SubSeq(parts, p + 2, Len(parts))
           /\ UNCHANGED <<trees, pc, call, results, stack, visited, ret, heads,
                          seq_index, snapshot>>

\* The groups become trees (lines 155-157) and the Impg is returned.
FromPafCollect ==
    /\ pc = "map"
    /\ Len(parts) = 1
    /\ parts[1].next > parts[1].hi
    /\ trees' \in TreesOf(parts[1].acc)
    /\ ret' = Ok([trees |-> trees', seq_index |-> seq_index])
    /\ pc' = "done"
    /\ UNCHANGED <<call, results, stack, visited, heads, seq_index, parts, snapshot>>

\* The PafRecords of a batch: two names, a target that starts at 0 or 1 and
\* ends at 2, a query from 3 to 4, and no CIGAR, the CIGAR 1= or the CIGAR 1M.
PafRecords ==
    { [query_name |-> qn, target_name |-> tn, target_start |-> ts, target_end |-> 2,
       query_start |-> 3, query_end |-> 4, strand |-> "Forward", cigar |-> cg] :
        qn \in {"a", "b"}, tn \in {"a", "b"}, ts \in {0, 1},
        cg \in {<<>>, << <<"1", "=">> >>, << <<"1", "M">> >>} }

BuildCalls(maxrecords) ==
    { [fn |-> "from_paf_records", records |-> r] :
        r \in UNION { [1..n -> PafRecords] : n \in 0..maxrecords } }

InitBuild ==
    /\ call \in BuildCalls(MaxRecords)
    /\ pc = "intern"
    /\ trees = <<>>
    /\ results = <<>>
    /\ stack = <<>>
    /\ visited = {}
    /\ ret = <<>>
    /\ heads = <<>>
    /\ seq_index = SequenceIndex_new
    /\ parts = <<>>
    /\ snapshot = <<>>

NextBuild ==
    \/ FromPafIntern
    \/ FromPafSplit
    \/ FromPafWork
    \/ FromPafReduce
    \/ FromPafCollect

SpecBuild == InitBuild /\ [][NextBuild]_vars

\* ------------------------------------------ to_serializable, from_serializable

\* The SerializableInterval with the first of the interval as its last too.
SerializableInterval_last_is_first(interval) ==
    [first |-> interval.first, last |-> interval.first, metadata |-> interval.metadata]

\* The SerializableInterval that to_serializable makes of an interval of a
\* tree (lines 164-168).
SerializableInterval(interval) ==
    [first |-> interval.first, last |-> interval.last, metadata |-> interval.metadata]

\* The Interval that from_serializable makes of a SerializableInterval (lines
\* 177-181).
IntervalFrom(serializable) ==
    [first |-> serializable.first, last |-> serializable.last,
     metadata |-> serializable.metadata]

\* The lists to_serializable may collect from the trees: tree.iter() yields
\* the intervals of a tree in an order of its own.
SerializableTrees(index) ==
    { [t \in DOMAIN index |-> [i \in DOMAIN o[t] |-> SerializableInterval(o[t][i])]] :
        o \in TreesOf(index) }

\* let serializable = impg.to_serializable().
ToSerializable ==
    /\ pc = "idle"
    /\ call' = [fn |-> "to_serializable"]
    /\ \E serializable_trees \in SerializableTrees(trees) :
          snapshot' = <<serializable_trees, seq_index>>
    /\ pc' = "serialized"
    /\ UNCHANGED <<trees, results, stack, visited, ret, heads, seq_index, parts>>

\* Impg::from_serializable(serializable): a tree is built from each list.
FromSerializable ==
    /\ pc = "serialized"
    /\ call' = [fn |-> "from_serializable"]
    /\ \E rebuilt \in TreesOf([t \in DOMAIN snapshot[1] |->
                                   [i \in DOMAIN snapshot[1][t] |->
                                       IntervalFrom(snapshot[1][t][i])]]) :
          ret' = [trees |-> rebuilt, seq_index |-> snapshot[2]]
    /\ pc' = "done"
    /\ UNCHANGED <<trees, results, stack, visited, heads, seq_index, parts, snapshot>>

\* Snapshots of an index of alignments of the first base of the sequences
\* 0..MaxSnapSeq-1: what a snapshot may reorder is the intervals of a tree.
InitSnapshot ==
    InitOn(TreeMaps(MaxSnapSeq, MaxSnapEntries,
                    { FirstBaseAlignment(q) : q \in 0..(MaxSnapSeq - 1) }))

NextSnapshot ==
    \/ ToSerializable
    \/ FromSerializable

SpecSnapshot == InitSnapshot /\ [][NextSnapshot]_vars

\* ------------------------------------------------- the stored CIGAR

\* The decimal digits of n >= 0, as chars.
RECURSIVE Decimal(_)
Decimal(n) ==
    LET digit == <<"0", "1", "2", "3", "4", "5", "6", "7", "8", "9">>[(n % 10) + 1]
    IN IF n < 10 THEN <<digit>> ELSE Append(Decimal(n \div 10), digit)

\* The CIGAR string of the <<length, opcode>> pairs from pair i on.
RECURSIVE CigarOf(_, _)
CigarOf(pairs, i) ==
    IF i > Len(pairs) THEN <<>>
    ELSE Decimal(pairs[i][1]) \o <<pairs[i][2]>> \o CigarOf(pairs, i + 1)

\* The lengths that are stored: the shortest, the two around 2^16, where the
\* second byte of val runs over, and 2^30 - 1, the longest an op holds.
StoreLens(window) == (0..window) \cup {65535, 65536, LenLimit - 1}

\* The CIGARs that are stored: those of at most maxops pairs.
StoreCalls(maxops, window) ==
    { [fn |-> "store", pairs |-> ps, cigar |-> CigarOf(ps, 1)] :
        ps \in UNION { [1..n -> StoreLens(window) \X {"=", "X", "I", "D"}] :
                         n \in 0..maxops } }

InitStore == InitCall(StoreCalls(MaxStoreOps, MaxLenWindow))

\* What from_paf_records does with the CIGAR of a record and Impg::query with
\* the metadata of a hit: parse_cigar_to_delta (line 123), set_cigar_ops on a
\* QueryMetadata (line 136), get_cigar_ops (line 201).
Store ==
    /\ pc = "idle"
    /\ call.fn = "store"
    /\ LET parsed == parse_cigar_to_delta(call.cigar)
           metadata == [compressed_cigar_ops |->
                           set_cigar_ops(IF parsed.ok THEN parsed.val ELSE <<>>)]
       IN ret' = [parsed |-> parsed, cigar_ops |-> get_cigar_ops(metadata)]
    /\ pc' = "done"
    /\ UNCHANGED <<trees, call, results, stack, visited, heads>>
    /\ UNCHANGED buildVars

NextStore == Store

SpecStore == InitStore /\ [][NextStore]_vars

\* ------------------------------------------------------------ the claims

Range(seq) == { seq[i] : i \in DOMAIN seq }

Count(seq, x) == Cardinality({ i \in DOMAIN seq : seq[i] = x })

TransitiveDone == pc = "done" /\ call.fn = "query_transitive"

\* The triples that iteration k of the while loop pushed: the stack at the
\* next loop head is the stack at this one without its last element, followed
\* by them.
PushedAt(k) ==
    SubSeq(heads[k + 1].stack, Len(heads[k].stack), Len(heads[k + 1].stack))

\* Loop head j repeats loop head i: the same visited set, the same triple on
\* top of the stack, above a stack that starts with the one below i's top, and
\* the stack was never shorter in between.  The iterations from i to j read
\* only the top and the visited set, so from j they run again, and again from
\* the head they lead to: the stack is never empty.
Recurs(i, j) ==
    LET si == heads[i].stack
        sj == heads[j].stack
    IN /\ si /= <<>>
       /\ Len(si) <= Len(sj)
       /\ heads[i].visited = heads[j].visited
       /\ si[Len(si)] = sj[Len(sj)]
       /\ SubSeq(sj, 1, Len(si) - 1) = SubSeq(si, 1, Len(si) - 1)
       /\ \A k \in i..j : Len(heads[k].stack) >= Len(si)

\* C1: query_transitive terminates on every index, the indexes with cycles
\* between sequences and with several alignments projecting to one triple
\* included: no run comes to a loop head that repeats an earlier one.
C1_Terminates ==
    \A j \in 1..Len(heads) : \A i \in 1..(j - 1) : ~Recurs(i, j)

\* C2: when query_transitive has returned, every interval that query projects
\* from a triple emitted while another sequence was processed (the triples of
\* visited) is in the output.
C2_FollowsChains ==
    TransitiveDone =>
        \A t \in visited :
            \A i \in 2..Len(query(trees, t[1], t[2], t[3])) :
                query(trees, t[1], t[2], t[3])[i] \in Range(ret)

\* C3: in every iteration of the loop a triple observed for the first time is
\* pushed and a triple already in visited is not, and no triple is pushed twice
\* in one call.
C3_PushOnFirstObservation ==
    /\ \A k \in 1..(Len(heads) - 1) :
          /\ \A t \in heads[k + 1].visited \ heads[k].visited : t \in Range(PushedAt(k))
          /\ \A t \in Range(PushedAt(k)) : t \notin heads[k].visited
    /\ \A k1, k2 \in 1..(Len(heads) - 1) :
          \A i1 \in DOMAIN PushedAt(k1), i2 \in DOMAIN PushedAt(k2) :
              <<k1, i1>> /= <<k2, i2>> => PushedAt(k1)[i1] /= PushedAt(k2)[i2]

\* C4: from its first statement on, query and query_transitive hold the
\* identity interval (range_start, range_end, target_id) as the first element
\* of the results, and return it first.
C4_IdentityFirst ==
    /\ pc /= "idle" =>
          /\ results /= <<>>
          /\ results[1] = [first |-> call.range_start, last |-> call.range_end,
                           metadata |-> call.target_id]
    /\ pc = "done" => ret = results

\* C4's case: query_transitive has returned the identity followed by a hit.
C4_Witness == TransitiveDone /\ Len(ret) >= 2

\* C5: when query_transitive returns, each interval is in its result at least
\* as many times as in the result of query for the same arguments.
C5_SupersetOfQuery ==
    TransitiveDone =>
        LET direct == query(trees, call.target_id, call.range_start, call.range_end)
        IN \A x \in Range(direct) : Count(ret, x) >= Count(direct, x)

\* C5's case: query_transitive has returned more than query returns, after a
\* range that stabs two alignments.
C5_Witness ==
    /\ TransitiveDone
    /\ Len(query(trees, call.target_id, call.range_start, call.range_end)) >= 3
    /\ Len(ret) > Len(query(trees, call.target_id, call.range_start, call.range_end))

ProjectDone == pc = "done" /\ call.fn = "project"

AllMatches(cigar_ops) ==
    cigar_ops /= <<>> /\ \A i \in DOMAIN cigar_ops : CigarOp_op(cigar_ops[i]) = "="

\* The range lies inside [target_start, target_end].
RangeInside == call.record[1] <= call.target_range[1] /\ call.target_range[2] <= call.record[2]

\* C6: the projection of a range that stabs the record returns first <= last.
C6_Ordered == ProjectDone => ret[1] <= ret[2]

\* C6's case: a reverse-strand projection through an insertion that returns a
\* non-empty interval.
C6_Witness ==
    /\ ProjectDone
    /\ call.record[5] = "Reverse"
    /\ \E i \in DOMAIN call.cigar_ops : CigarOp_op(call.cigar_ops[i]) = "I"
    /\ ret[1] < ret[2]

\* C7 as stated: on the reverse strand, through `=` ops only, a range (s, e)
\* with tS <= s <= e <= tE projects to (qS + (tE - e), qS + (tE - s)).
C7_ReverseMatches_Stated ==
    (ProjectDone /\ call.record[5] = "Reverse" /\ AllMatches(call.cigar_ops) /\ RangeInside) =>
        ret = <<call.record[3] + (call.record[2] - call.target_range[2]),
                call.record[3] + (call.record[2] - call.target_range[1])>>

\* C7 as amended: the same for the ranges with s < e.
C7_ReverseMatches ==
    (/\ ProjectDone /\ call.record[5] = "Reverse" /\ AllMatches(call.cigar_ops)
     /\ RangeInside /\ call.target_range[1] < call.target_range[2]) =>
        ret = <<call.record[3] + (call.record[2] - call.target_range[2]),
                call.record[3] + (call.record[2] - call.target_range[1])>>

\* C7's case: a non-empty range projected on the reverse strand through two
\* `=` ops, starting after the first.
C7_Witness ==
    /\ ProjectDone /\ call.record[5] = "Reverse" /\ AllMatches(call.cigar_ops)
    /\ RangeInside /\ call.target_range[1] < call.target_range[2]
    /\ call.record[1] < call.target_range[1]
    /\ ret[1] < ret[2]

\* C8 as stated: on the forward strand, through `=` ops only, a range inside
\* [tS, tE] projects to itself.
C8_ForwardMatches_Stated ==
    (ProjectDone /\ call.record[5] = "Forward" /\ AllMatches(call.cigar_ops) /\ RangeInside) =>
        ret = call.target_range

\* C8 as amended: a range (s, e) with tS <= s < e <= tE projects to
\* (qS + (s - tS), qS + (e - tS)), which is the range itself when qS = tS.
C8_ForwardMatches ==
    (/\ ProjectDone /\ call.record[5] = "Forward" /\ AllMatches(call.cigar_ops)
     /\ RangeInside /\ call.target_range[1] < call.target_range[2]) =>
        ret = <<call.record[3] + (call.target_range[1] - call.record[1]),
                call.record[3] + (call.target_range[2] - call.record[1])>>

\* C8's case: a non-empty range projected on the forward strand through two
\* `=` ops, both inside it.
C8_Witness ==
    /\ ProjectDone /\ call.record[5] = "Forward" /\ AllMatches(call.cigar_ops)
    /\ RangeInside /\ call.target_range[2] - call.target_range[1] >= 2
    /\ ret[2] - ret[1] >= 2

\* The string is (digits opcode)+ from char i on, `digits` telling whether a
\* digit came since the last opcode.
RECURSIVE IsCigarForm(_, _, _)
IsCigarForm(cigar, i, digits) ==
    IF i > Len(cigar) THEN ~digits /\ cigar /= <<>>
    ELSE IF IsAsciiDigit(cigar[i]) THEN IsCigarForm(cigar, i + 1, TRUE)
    ELSE digits /\ cigar[i] \in {"=", "X", "I", "D"} /\ IsCigarForm(cigar, i + 1, FALSE)

\* The (digits, opcode) pairs of a string of that form, in order, as
\* <<length, opcode>>.
RECURSIVE PairsOf(_, _, _)
PairsOf(cigar, i, len) ==
    IF i > Len(cigar) THEN <<>>
    ELSE IF IsAsciiDigit(cigar[i]) THEN PairsOf(cigar, i + 1, len * 10 + DigitValue(cigar[i]))
    ELSE <<<<len, cigar[i]>>>> \o PairsOf(cigar, i + 1, 0)

\* C9: the parser returns one op per (digits, opcode) pair, in order, for a
\* string of the form (digits opcode)+, and rejects with InvalidCigarFormat a
\* string that ends in a digit run, that has an opcode with no digits before
\* it, or that has an opcode outside = X I D.  (These are all the strings but
\* the empty one.)
C9_ParserAcceptsExactly ==
    (pc = "done" /\ call.fn = "parse") =>
        IF IsCigarForm(call.cigar, 1, FALSE)
        THEN /\ ret.ok
             /\ Len(ret.val) = Len(PairsOf(call.cigar, 1, 0))
             /\ \A i \in DOMAIN ret.val :
                    /\ CigarOp_len(ret.val[i]) = PairsOf(call.cigar, 1, 0)[i][1]
                    /\ CigarOp_op(ret.val[i]) = PairsOf(call.cigar, 1, 0)[i][2]
        ELSE call.cigar /= <<>> => (~ret.ok /\ ret.err = "InvalidCigarFormat")

\* C10: CigarOp::new fails for an op outside = X I D and for a length that
\* does not fit in 30 bits, and a value it returns reads back the op it was
\* given.
C10_NewChecksItsArguments ==
    (pc = "done" /\ call.fn = "CigarOp::new") =>
        /\ (call.op \notin {"=", "X", "I", "D"} \/ call.len < 0 \/ call.len >= LenLimit)
               => ~ret.ok
        /\ ret.ok => CigarOp_op(ret.val) = call.op
BuildDone == pc = "done" /\ call.fn = "from_paf_records"

\* The record has no CIGAR or one that parses.
Accepted(record) ==
    record.cigar = <<>> \/ parse_cigar_to_delta(record.cigar[1]).ok

\* The interval stored under target_id is the one the record describes: its
\* target's id, first = target_start, last = target_end, its query's id, its
\* coordinates and strand, and the ops of its CIGAR (none without CIGAR).
FromRecord(target_id, interval, record) ==
    /\ record.target_name \in DOMAIN seq_index
    /\ record.query_name \in DOMAIN seq_index
    /\ target_id = seq_index[record.target_name]
    /\ interval.first = record.target_start
    /\ interval.last = record.target_end
    /\ interval.metadata.query_id = seq_index[record.query_name]
    /\ interval.metadata.target_start = record.target_start
    /\ interval.metadata.target_end = record.target_end
    /\ interval.metadata.query_start = record.query_start
    /\ interval.metadata.query_end = record.query_end
    /\ interval.metadata.strand = record.strand
    /\ get_cigar_ops(interval.metadata) =
          (IF record.cigar = <<>> THEN <<>> ELSE parse_cigar_to_delta(record.cigar[1]).val)

\* The number of intervals in all the trees.
RECURSIVE TotalEntries(_, _)
TotalEntries(index, keys) ==
    IF keys = {} THEN 0
    ELSE LET k == CHOOSE x \in keys : TRUE
         IN Len(index[k]) + TotalEntries(index, keys \ {k})

\* C11: from_paf_records does not panic and returns Ok for every batch; the
\* trees hold one interval for every record without CIGAR or with a CIGAR that
\* parses, under its target's id with first = target_start and
\* last = target_end, and nothing for a record whose CIGAR fails to parse: an
\* interval is in its tree as many times as there are such records that
\* describe it.
C11_DropsBadRecords ==
    /\ pc /= "panic"
    /\ BuildDone =>
          /\ ret.ok
          /\ TotalEntries(trees, DOMAIN trees) =
                Cardinality({ k \in DOMAIN call.records : Accepted(call.records[k]) })
          /\ \A k \in DOMAIN call.records :
                Accepted(call.records[k]) =>
                    \E t \in DOMAIN trees : \E i \in DOMAIN trees[t] :
                        FromRecord(t, trees[t][i], call.records[k])
          /\ \A t \in DOMAIN trees : \A i \in DOMAIN trees[t] :
                Count(trees[t], trees[t][i]) =
                Cardinality({ k \in DOMAIN call.records :
                                /\ Accepted(call.records[k])
                                /\ FromRecord(t, trees[t][i], call.records[k]) })

\* C11's case: a batch of a record whose CIGAR fails to parse and a record
\* without CIGAR has been built into an index of one interval.
C11_Witness ==
    /\ BuildDone
    /\ \E k \in DOMAIN call.records : ~Accepted(call.records[k])
    /\ \E k \in DOMAIN call.records : call.records[k].cigar = <<>>
    /\ TotalEntries(trees, DOMAIN trees) = 1

\* C12: every QueryMetadata in the index that from_paf_records returns has
\* target_start <= target_end, query_start <= query_end, the target deltas of
\* its CIGAR summing to target_end - target_start and the absolute query deltas
\* to query_end - query_start.
C12_ConstructionInvariants ==
    BuildDone =>
        \A t \in DOMAIN trees : \A i \in DOMAIN trees[t] :
            LET m == trees[t][i].metadata
            IN /\ m.target_start <= m.target_end
               /\ m.query_start <= m.query_end
               /\ SumTargetDelta(get_cigar_ops(m), 1) = m.target_end - m.target_start
               /\ SumQueryDelta(get_cigar_ops(m), 1) = m.query_end - m.query_start

\* The groups that one task builds when it folds the records in their order.
RECURSIVE SequentialGroups(_, _, _, _)
SequentialGroups(index, records, i, acc) ==
    IF i > Len(records) THEN acc
    ELSE LET entry == RecordEntry(index, records[i])
         IN SequentialGroups(index, records, i + 1,
                             IF entry.kind = "some"
                             THEN FoldPush(acc, entry.target_id, entry.interval)
                             ELSE acc)

\* C13: no lookup of an id misses, and whatever the pieces the records were
\* split in, the order the tasks ran in and the order the groups were merged
\* in, the index has the targets and, for each target, the intervals (each as
\* many times) that folding the whole batch in its order gives.
C13_DeterministicContent ==
    /\ pc /= "panic"
    /\ BuildDone =>
          LET groups == SequentialGroups(seq_index, call.records, 1, <<>>)
          IN /\ DOMAIN trees = DOMAIN groups
             /\ \A t \in DOMAIN trees : \A x \in Range(trees[t]) \cup Range(groups[t]) :
                    Count(trees[t], x) = Count(groups[t], x)

\* C13's case: the batch was split in two pieces, two tasks have folded them,
\* and their groups, which are to be merged, have a target in common.
C13_Witness ==
    /\ pc = "map"
    /\ Len(parts) = 2
    /\ parts[1].next > parts[1].hi
    /\ parts[2].next > parts[2].hi
    /\ DOMAIN parts[1].acc \cap DOMAIN parts[2].acc /= {}
SnapshotDone == pc = "done" /\ call.fn = "from_serializable"

\* The elements of a sequence with the number of times each occurs.
BagOf(seq) == [x \in Range(seq) |-> Count(seq, x)]

\* C14: the index rebuilt from the snapshot of an index has the same target
\* ids, the same intervals (each as many times) under each target, and the same
\* sequence index, and query returns from it the same intervals (each as many
\* times) for every target and range.
C14_SnapshotRoundTrip ==
    SnapshotDone =>
        /\ DOMAIN ret.trees = DOMAIN trees
        /\ ret.seq_index = seq_index
        /\ \A t \in DOMAIN trees : BagOf(ret.trees[t]) = BagOf(trees[t])
        /\ \A t \in 0..MaxSnapSeq : \A s, e \in 0..2 :
              s <= e => BagOf(query(ret.trees, t, s, e)) = BagOf(query(trees, t, s, e))

\* C14's case: an index with two intervals on one target was rebuilt with its
\* tree in another order.
C14_Witness ==
    /\ SnapshotDone
    /\ \E t \in DOMAIN trees : Len(trees[t]) >= 2 /\ ret.trees[t] /= trees[t]
StoreDone == pc = "done" /\ call.fn = "store"

\* C15: the ops that get_cigar_ops reads after set_cigar_ops are the ops the
\* parser returned, in their order, and each reads back the opcode and the
\* length (0 <= n < 2^30) it was built from.
C15_StorageLossless ==
    StoreDone =>
        /\ ret.parsed.ok
        /\ ret.cigar_ops = ret.parsed.val
        /\ Len(ret.cigar_ops) = Len(call.pairs)
        /\ \A i \in DOMAIN ret.cigar_ops :
              /\ CigarOp_len(ret.cigar_ops[i]) = call.pairs[i][1]
              /\ CigarOp_op(ret.cigar_ops[i]) = call.pairs[i][2]

\* C15's case: a D of the longest length and an op that fills more than one
\* byte were stored and read back.
C15_Witness ==
    /\ StoreDone
    /\ Len(ret.cigar_ops) = 2
    /\ CigarOp_op(ret.cigar_ops[1]) = "D"
    /\ CigarOp_len(ret.cigar_ops[1]) = LenLimit - 1
    /\ CigarOp_len(ret.cigar_ops[2]) > 65535
    /\ CigarOp_len(ret.cigar_ops[2]) < LenLimit - 1
\* C16: a call of query for a target_id that has no tree returns the identity
\* interval (range_start, range_end, target_id) and nothing else, and leaves the
\* trees as they were.
C16_IndexMiss ==
    [][(/\ pc = "idle" /\ pc' = "done" /\ call'.fn = "query"
        /\ call'.target_id \notin DOMAIN trees)
       => (/\ ret' = <<[first |-> call'.range_start, last |-> call'.range_end,
                        metadata |-> call'.target_id]>>
           /\ trees' = trees)]_vars

\* C16's case: query has returned for a target without tree, from an index
\* that has a tree for another target, which the range overlaps.
C16_Witness ==
    /\ pc = "done" /\ call.fn = "query"
    /\ call.target_id \notin DOMAIN trees
    /\ \E t \in DOMAIN trees : Stab(trees[t], call.range_start, call.range_end) /= <<>>
    /\ Len(ret) = 1
\* The target position at which op i of the call's CIGAR starts, and the query
\* position there on the forward strand.
TargetPosAt(i) == call.record[1] + SumTargetDelta(SubSeq(call.cigar_ops, 1, i - 1), 1)

QueryPosAt(i) == call.record[3] + SumQueryDelta(SubSeq(call.cigar_ops, 1, i - 1), 1)

\* Op i is an I at position p, the range (s, e) has s <= p = e.
EndsAtInsertion(i) ==
    /\ CigarOp_op(call.cigar_ops[i]) = "I"
    /\ call.target_range[1] <= TargetPosAt(i)
    /\ call.target_range[2] = TargetPosAt(i)

\* Op i is an I at position p, followed by a match op that reaches e, and the
\* range (s, e) has s <= p < e.
EndsInMatchAfterInsertion(i) ==
    /\ CigarOp_op(call.cigar_ops[i]) = "I"
    /\ (i + 1) \in DOMAIN call.cigar_ops
    /\ CigarOp_op(call.cigar_ops[i + 1]) \in {"=", "X"}
    /\ call.target_range[1] <= TargetPosAt(i)
    /\ call.target_range[2] > TargetPosAt(i)
    /\ call.target_range[2] <= TargetPosAt(i) + CigarOp_len(call.cigar_ops[i + 1])

\* Op i exists and is an I.
IsInsertion(i) ==
    i \in DOMAIN call.cigar_ops /\ CigarOp_op(call.cigar_ops[i]) = "I"

\* C17: on the forward strand, for an I op at target position p (the last of
\* its run, if several insertions follow one another), a range (s, e) with
\* s <= p = e projects to an end at the query position just before the
\* insertion, and a range with s <= p < e, where a match op that reaches e
\* follows the insertion (and no run of insertions follows that), to an end
\* after the whole insertion and e - p matched bases.
C17_InsertionAtRightEnd ==
    (ProjectDone /\ call.record[5] = "Forward") =>
        \A i \in DOMAIN call.cigar_ops :
            /\ (EndsAtInsertion(i) /\ ~IsInsertion(i + 1)) =>
                  ret[2] = QueryPosAt(i)
            /\ (/\ EndsInMatchAfterInsertion(i)
                /\ ~(IsInsertion(i + 2) /\ IsInsertion(i + 3))) =>
                  ret[2] = QueryPosAt(i) + CigarOp_len(call.cigar_ops[i])
                           + (call.target_range[2] - TargetPosAt(i))

\* C18: for a record that keeps the invariants of its construction, on either
\* strand, and any range with range_start <= range_end, both ends of the pair
\* the projection returns lie inside [query_start, query_end].
C18_InsideQuerySpan ==
    ProjectDone =>
        /\ call.record[3] <= ret[1] /\ ret[1] <= call.record[4]
        /\ call.record[3] <= ret[2] /\ ret[2] <= call.record[4]

\* C18's case: on the reverse strand a range that overlaps the start of the
\* record only was projected on the end of the query span.
C18_Witness ==
    /\ ProjectDone /\ call.record[5] = "Reverse"
    /\ call.target_range[2] < call.record[2]
    /\ call.record[3] < ret[1] /\ ret[1] < ret[2] /\ ret[2] = call.record[4]

\* The projection of (s1, e1) through the call's record and CIGAR.
SubProjection(s1, e1) ==
    project_target_range_through_alignment(<<s1, e1>>, call.record, call.cigar_ops)

\* C19 as stated: for tS <= s2 <= s1 <= e1 <= e2 <= tE, the projection of
\* (s1, e1) lies inside the projection of (s2, e2), the empty ranges (s1 = e1)
\* included.
C19_Monotone_Stated ==
    (ProjectDone /\ RangeInside) =>
        \A s1 \in call.target_range[1]..call.target_range[2] :
            \A e1 \in s1..call.target_range[2] :
                /\ ret[1] <= SubProjection(s1, e1)[1]
                /\ SubProjection(s1, e1)[2] <= ret[2]

\* C19 as amended: the same for the ranges (s1, e1) that are not empty,
\* tS <= s2 <= s1 < e1 <= e2 <= tE.
C19_Monotone ==
    (ProjectDone /\ RangeInside) =>
        \A s1 \in call.target_range[1]..call.target_range[2] :
            \A e1 \in (s1 + 1)..call.target_range[2] :
                /\ ret[1] <= SubProjection(s1, e1)[1]
                /\ SubProjection(s1, e1)[2] <= ret[2]

\* C19's case: a range was projected that contains a shorter one, not empty,
\* whose projection is shorter.
C19_Witness ==
    /\ ProjectDone /\ RangeInside
    /\ \E s1 \in call.target_range[1]..call.target_range[2] :
          \E e1 \in (s1 + 1)..call.target_range[2] :
              SubProjection(s1, e1)[2] - SubProjection(s1, e1)[1] < ret[2] - ret[1]
====
